---- MODULE Spec2Model ----
(***************************************************************************)
(* Candidate sourcing aggregation of TradesCompass                         *)
(* (src/services/candidate_sourcing.py): the provider adapters, the        *)
(* heuristic fit score, the deduplicator and the entry point               *)
(* search_external_candidates.                                             *)
(*                                                                         *)
(* Python strings are sequences of one-character strings; a dict is a      *)
(* TLA+ record whose DOMAIN is the dict's key set; Python's None is the    *)
(* value None below.  Scores are kept in halves (5.0 is 10, 0.5 is 1).     *)
(***************************************************************************)
EXTENDS Integers, Sequences, FiniteSets, TLC

\* ------------------------------------------------------------------ bounds
MaxDedupLen == 3    \* longest candidate list handed to the deduplicator
MaxReqSkills == 5   \* longest required-skills list handed to the scorer
MaxLimit == 2       \* largest result limit of a request
MaxCandidates == 2  \* most entries all providers together return in one call

\* ------------------------------------------------------- Python primitives
\* Python's None.  Strings hold one-character entries, so this four-character
\* entry is no string.
None == <<"None">>

IsNone(v) == v = None

\* str(None) as an f-string renders it
NoneText == <<"N", "o", "n", "e">>

\* dict.get(key, default)
Get(d, key, default) == IF key \in DOMAIN d THEN d[key] ELSE default

\* truth value of a string, a list or None
Truthy(v) == ~IsNone(v) /\ v # <<>>

\* x or y
Or(x, y) == IF Truthy(x) THEN x ELSE y

LowerChar(c) ==
    CASE c = "A" -> "a"
      [] c = "B" -> "b"
      [] c = "E" -> "e"
      [] c = "L" -> "l"
      [] c = "N" -> "n"
      [] c = "O" -> "o"
      [] c = "S" -> "s"
      [] c = "T" -> "t"
      [] OTHER -> c

\* str.lower()
Lower(s) == [i \in 1..Len(s) |-> LowerChar(s[i])]

RECURSIVE LStrip(_)
LStrip(s) == IF s # <<>> /\ Head(s) = " " THEN LStrip(Tail(s)) ELSE s

RECURSIVE RStrip(_)
RStrip(s) ==
    IF s # <<>> /\ s[Len(s)] = " " THEN RStrip(SubSeq(s, 1, Len(s) - 1)) ELSE s

\* str.strip()
Strip(s) == RStrip(LStrip(s))

\* sub in s
Contains(s, sub) ==
    \E i \in 0..(Len(s) - Len(sub)) : SubSeq(s, i + 1, i + Len(sub)) = sub

\* ' '.join(parts)
RECURSIVE Join(_)
Join(parts) ==
    IF parts = <<>> THEN <<>>
    ELSE IF Len(parts) = 1 THEN parts[1]
    ELSE parts[1] \o <<" ">> \o Join(Tail(parts))

\* seq[:n]
Take(seq, n) == SubSeq(seq, 1, IF Len(seq) < n THEN Len(seq) ELSE n)

Min(a, b) == IF a < b THEN a ELSE b

\* the sequences over S of length at most n
SeqUpTo(S, n) == UNION {[1..k -> S] : k \in 0..n}

\* ------------------------------------------------- _estimate_fit_score
\* Title match: +2.0 when the lower-cased query occurs in the lower-cased
\* 'title' (or, failing that, 'job_title') of the record.
TitleBonus(candidate_data, query) ==
    IF Truthy(Get(candidate_data, "title", None))
          \/ Truthy(Get(candidate_data, "job_title", None))
    THEN LET title == Lower(Or(Get(candidate_data, "title", None),
                               Get(candidate_data, "job_title", <<>>)))
         IN  IF Contains(title, Lower(query)) THEN 4 ELSE 0
    ELSE 0

\* number of entries of required_skills whose lower-cased text is one of the
\* record's lower-cased skills (a repeated entry counts each time)
MatchedSkills(candidate_data, required_skills) ==
    LET candidate_skills ==
            {Lower(candidate_data.skills[i]) : i \in 1..Len(candidate_data.skills)}
    IN  Cardinality({i \in 1..Len(required_skills) :
                        Lower(required_skills[i]) \in candidate_skills})

SkillsBonusProportional(candidate_data, required_skills) ==
    IF Truthy(required_skills) /\ Truthy(Get(candidate_data, "skills", None))
    THEN Min((4 * MatchedSkills(candidate_data, required_skills))
                 \div Len(required_skills), 4)
    ELSE 0

\* Skills match: 0.5 per matched skill, at most 2.0.
SkillsBonus(candidate_data, required_skills) ==
    IF Truthy(required_skills) /\ Truthy(Get(candidate_data, "skills", None))
    THEN Min(MatchedSkills(candidate_data, required_skills) * 1, 4)
    ELSE 0

\* a number's truth value: present and not 0
TruthyNum(d, key) == key \in DOMAIN d /\ d[key] # 0

\* Experience: +1.0 at five years or more.
ExperienceBonus(candidate_data) ==
    IF TruthyNum(candidate_data, "yearsOfExperience")
          \/ TruthyNum(candidate_data, "experience_years")
    THEN LET years == IF TruthyNum(candidate_data, "yearsOfExperience")
                      THEN candidate_data.yearsOfExperience
                      ELSE Get(candidate_data, "experience_years", 0)
         IN  IF years >= 5 THEN 2 ELSE 0
    ELSE 0

estimate_fit_score_unclamped(candidate_data, query, required_skills) ==
    10 + TitleBonus(candidate_data, query)
       + (IF Truthy(required_skills) /\ Truthy(Get(candidate_data, "skills", None))
          THEN MatchedSkills(candidate_data, required_skills) ELSE 0)
       + ExperienceBonus(candidate_data)

estimate_fit_score(candidate_data, query, required_skills) ==
    Min(10 + TitleBonus(candidate_data, query)
           + SkillsBonus(candidate_data, required_skills)
           + ExperienceBonus(candidate_data),
        20)

\* ----------------------------------------------- _deduplicate_candidates
NormKeyRaw(s) == s

\* .lower().strip() of an email or a name
NormKey(s) == Strip(Lower(s))

KeepCandidateFront(unique_candidates, candidate) ==
    <<candidate>> \o unique_candidates

KeepCandidateLowered(unique_candidates, candidate) ==
    Append(unique_candidates,
           IF "email" \in DOMAIN candidate
           THEN [candidate EXCEPT !.email = Strip(Lower(@))]
           ELSE candidate)

\* unique_candidates.append(candidate)
KeepCandidate(unique_candidates, candidate) ==
    Append(unique_candidates, candidate)

DedupStart ==
    [raised |-> FALSE, seen_emails |-> {}, seen_names |-> {},
     unique_candidates |-> <<>>]

\* the loop body, were a name registered only for a record without email
DedupStepNamesOfEmailless(st, candidate) ==
    IF st.raised THEN st
    ELSE IF IsNone(Get(candidate, "email", <<>>))
    THEN [st EXCEPT !.raised = TRUE]
    ELSE
      LET email == NormKey(Get(candidate, "email", <<>>)) IN
      IF Truthy(email) /\ email \in st.seen_emails THEN st
      ELSE IF IsNone(Get(candidate, "name", <<>>))
      THEN [st EXCEPT !.raised = TRUE]
      ELSE
        LET name == NormKey(Get(candidate, "name", <<>>)) IN
        IF ~Truthy(email) /\ Truthy(name) /\ name \in st.seen_names THEN st
        ELSE [raised |-> FALSE,
              seen_emails |-> IF Truthy(email)
                              THEN st.seen_emails \cup {email}
                              ELSE st.seen_emails,
              seen_names |-> IF Truthy(name) /\ ~Truthy(email)
                             THEN st.seen_names \cup {name}
                             ELSE st.seen_names,
              unique_candidates |-> KeepCandidate(st.unique_candidates, candidate)]

\* One pass of the loop body.  None.lower() raises AttributeError, which
\* nothing in the function catches.
DedupStep(st, candidate) ==
    IF st.raised THEN st
    ELSE IF IsNone(Get(candidate, "email", <<>>))
    THEN [st EXCEPT !.raised = TRUE]
    ELSE
      LET email == NormKey(Get(candidate, "email", <<>>)) IN
      IF Truthy(email) /\ email \in st.seen_emails THEN st
      ELSE IF IsNone(Get(candidate, "name", <<>>))
      THEN [st EXCEPT !.raised = TRUE]
      ELSE
        LET name == NormKey(Get(candidate, "name", <<>>)) IN
        IF ~Truthy(email) /\ Truthy(name) /\ name \in st.seen_names THEN st
        ELSE [raised |-> FALSE,
              seen_emails |-> IF Truthy(email)
                              THEN st.seen_emails \cup {email}
                              ELSE st.seen_emails,
              seen_names |-> IF Truthy(name)
                             THEN st.seen_names \cup {name}
                             ELSE st.seen_names,
              unique_candidates |-> KeepCandidate(st.unique_candidates, candidate)]

RECURSIVE DedupLoop(_, _)
DedupLoop(st, candidates) ==
    IF candidates = <<>> THEN st
    ELSE DedupLoop(DedupStep(st, Head(candidates)), Tail(candidates))

\* The call's outcome: raised, or the list returned.
deduplicate_candidates(candidates) ==
    LET st == DedupLoop(DedupStart, candidates)
    IN  [raised |-> st.raised,
         out |-> IF st.raised THEN <<>> ELSE st.unique_candidates]

\* --------------------------------------------------------------- variables
VARIABLES
    config,           \* Config: which credentials are set
    pc,               \* the aggregation call: "idle", "ready", a provider name, "done"
    req,              \* arguments of search_external_candidates
    search_query,     \* search_public_profiles: the joined query
    all_candidates,   \* search_public_profiles: records collected so far
    sources_searched, \* search_public_profiles: providers that returned records
    requests,         \* HTTP requests issued so far, per provider
    outcome,          \* what happened inside each adapter (not visible to the caller)
    result,           \* what search_external_candidates returned or raised
    dIn,              \* deduplicator: the input list
    dOut,             \* deduplicator: outcome of the pass over dIn
    dOut2,            \* deduplicator: outcome of the pass over dOut.out
    dpc,              \* deduplicator: "idle", "input", "once", "twice"
    sIn,              \* scorer: [candidate_data, query, required_skills]
    sOut,             \* scorer: the score, in halves
    spc,              \* scorer: "idle", "input", "scored"
    xcfg,             \* XCandidateSourcer: rapidapi_key set, grok_client built
    xpc,              \* search_x_candidates: "idle", "ready", "search", "analyze", "dedup", "done"
    xreq,             \* arguments of search_x_candidates
    search_queries,   \* search_x_candidates: the queries still to be searched
    x_candidates,     \* search_x_candidates: the candidates list
    x_extracted,      \* the candidates list as it was handed to _analyze_with_grok
    grok_answers,     \* what Grok answered for each candidate, in turn
    xresult,          \* what search_x_candidates returned or raised
    rpc,              \* intelligent_search: "idle", "found", "done"
    ai_client,        \* EnhancedSourcingService: xai_client or openai_client is set
    found,            \* intelligent_search: all_candidates after the four searches
    rank_answer,      \* what the AI answered to the ranking prompt
    ranked,           \* what _rank_candidates_with_ai returned
    iresult,          \* what intelligent_search returned
    ppc,              \* two search_public_profiles calls: where each one is
    p_all,            \* all_candidates of each invocation
    p_sources,        \* sources_searched of each invocation
    p_returned,       \* what the adapters returned to each call, in turn
    presult,          \* what each call returned or raised
    db_rows,          \* the resume_analysis table
    db_skills,        \* the candidate_skill table
    bpc,              \* bulk_import_candidates: "idle", "ready", "loop", "done"
    candidates_data,  \* bulk_import_candidates: the argument
    todo,             \* bulk_import_candidates: the profiles the loop has not reached
    results,          \* bulk_import_candidates: the summary dict
    last_import       \* the last import_candidate_profile call and what it did

aggVars ==
    <<config, pc, req, search_query, all_candidates, sources_searched, requests,
      outcome, result>>
dedupVars == <<dIn, dOut, dOut2, dpc>>
scoreVars == <<sIn, sOut, spc>>

xVars ==
    <<xcfg, xpc, xreq, search_queries, x_candidates, x_extracted, grok_answers,
      xresult>>
rankVars == <<rpc, ai_client, found, rank_answer, ranked, iresult>>
pairVars == <<ppc, p_all, p_sources, p_returned, presult>>
importVars == <<db_rows, db_skills, bpc, candidates_data, todo, results, last_import>>
restVars == <<pairVars, importVars>>
otherVars == <<xVars, rankVars, restVars>>

vars == <<aggVars, dedupVars, scoreVars, otherVars>>

\* a dict without keys
EmptyDict == [k \in {} |-> <<>>]

NoOutcome == [raised |-> FALSE, out |-> <<>>]

DedupIdle == dIn = <<>> /\ dOut = NoOutcome /\ dOut2 = NoOutcome /\ dpc = "idle"
ScoreIdle == sIn = EmptyDict /\ sOut = 0 /\ spc = "idle"

NoXResult == [raised |-> FALSE, candidates |-> <<>>]
NoXRequest == [query |-> <<>>, skills |-> <<>>, location |-> None, limit |-> 1]

XIdle ==
    /\ xcfg = [rapidapi_key |-> FALSE, grok_client |-> FALSE]
    /\ xpc = "idle"
    /\ xreq = NoXRequest
    /\ search_queries = <<>>
    /\ x_candidates = <<>>
    /\ x_extracted = <<>>
    /\ grok_answers = <<>>
    /\ xresult = NoXResult

NoAnswer == [kind |-> "none"]
NoIResult == [candidates |-> <<>>, total_found |-> 0]

RankIdle ==
    /\ rpc = "idle"
    /\ ai_client = FALSE
    /\ found = <<>>
    /\ rank_answer = NoAnswer
    /\ ranked = <<>>
    /\ iresult = NoIResult

Calls == 1..2

NoPairResult == [raised |-> FALSE, candidates |-> <<>>]

PairIdle ==
    /\ ppc = [c \in Calls |-> "idle"]
    /\ p_all = [c \in Calls |-> <<>>]
    /\ p_sources = [c \in Calls |-> <<>>]
    /\ p_returned = [c \in Calls |-> <<>>]
    /\ presult = [c \in Calls |-> NoPairResult]

NoResults ==
    [total |-> 0, imported |-> 0, skipped |-> 0, errors |-> 0, candidates |-> <<>>]
NoImport == [kind |-> "never"]

ImportIdle ==
    /\ db_rows = <<>>
    /\ db_skills = <<>>
    /\ bpc = "idle"
    /\ candidates_data = <<>>
    /\ todo = <<>>
    /\ results = NoResults
    /\ last_import = NoImport

RestIdle == PairIdle /\ ImportIdle

\* the services outside the one a specification exercises are at rest
OtherIdle == XIdle /\ RankIdle /\ RestIdle

\* the texts the requests and records are drawn from
Electrician == <<"e">>
SeniorElectrician == <<"S", " ", "E">>
Licensed == <<"l">>
Osha == <<"o">>

\* ------------------------------------------------------ provider adapters
Providers == <<"GitHub", "PeopleDataLabs", "SeekOut", "SourceHub">>

ProviderNames == {Providers[i] : i \in 1..Len(Providers)}

NoRequests == [p \in ProviderNames |-> 0]
NoOutcomes == [p \in ProviderNames |-> "none"]
NoResult ==
    [raised |-> FALSE, error |-> "", candidates |-> <<>>, total_found |-> 0,
     sources_searched |-> <<>>]
NoRequest == [query |-> <<>>, location |-> None, skills |-> <<>>, limit |-> 1]

AggIdle ==
    /\ config = [GITHUB_TOKEN |-> FALSE, PEOPLEDATA_KEY |-> FALSE,
                 SEEKOUT_API_KEY |-> FALSE, SOURCEHUB_API_KEY |-> FALSE]
    /\ pc = "idle"
    /\ req = NoRequest
    /\ search_query = <<>>
    /\ all_candidates = <<>>
    /\ sources_searched = <<>>
    /\ requests = NoRequests
    /\ outcome = NoOutcomes
    /\ result = NoResult

\* a JSON null where a record object is expected: record.get raises on it
NullEntry == [null |-> TRUE]

IsNullEntry(r) == "null" \in DOMAIN r

\* f"{value}"
FStr(v) == IF IsNone(v) THEN NoneText ELSE v

\* One user of GitHub's search response as a candidate.
GitHubCandidate(user, skill) ==
    [source |-> "GitHub",
     profile_url |-> Get(user, "html_url", None),
     username |-> Get(user, "login", None),
     skills |-> <<skill>>]

\* One person of the PeopleDataLabs response as a candidate.
PeopleDataCandidate(person, query, skills) ==
    [source |-> "PeopleDataLabs",
     name |-> Get(person, "full_name", <<>>),
     email |-> Get(person, "email", <<>>),
     title |-> Get(person, "job_title", <<>>),
     skills |-> Get(person, "skills", <<>>),
     estimated_fit |-> estimate_fit_score(person, query, skills)]

\* One profile of the SeekOut response as a candidate.
SeekOutCandidate(profile, query, skills) ==
    [source |-> "SeekOut",
     name |-> Strip(FStr(Get(profile, "firstName", <<>>)) \o <<" ">>
                       \o FStr(Get(profile, "lastName", <<>>))),
     email |-> Get(profile, "email", <<>>),
     title |-> Get(profile, "currentTitle", <<>>),
     skills |-> Get(profile, "skills", <<>>),
     estimated_fit |-> estimate_fit_score(profile, query, skills)]

\* One entry of the SourceHub response as a candidate.
SourceHubCandidate(candidate_data, query, skills) ==
    [source |-> "SourceHub",
     name |-> Get(candidate_data, "full_name", <<>>),
     email |-> Get(candidate_data, "email", <<>>),
     title |-> Get(candidate_data, "job_title", <<>>),
     skills |-> Get(candidate_data, "skills", <<>>),
     estimated_fit |-> estimate_fit_score(candidate_data, query, skills)]

Normalize(provider, raw, query, skills) ==
    CASE provider = "PeopleDataLabs" -> PeopleDataCandidate(raw, query, skills)
      [] provider = "SeekOut" -> SeekOutCandidate(raw, query, skills)
      [] provider = "SourceHub" -> SourceHubCandidate(raw, query, skills)

\* The loop over a 200 response's records.  An exception while a record is
\* read is caught by the adapter's except clause, after the loop: the
\* candidates appended before it are returned.
RECURSIVE NormalizeLoop(_, _, _, _, _)
NormalizeLoop(provider, records, query, skills, candidates) ==
    IF records = <<>> \/ IsNullEntry(Head(records)) THEN candidates
    ELSE NormalizeLoop(provider, Tail(records), query, skills,
                       Append(candidates, Normalize(provider, Head(records), query, skills)))

\* _search_peopledata, _search_seekout, _search_sourcehub once the key is
\* known to be set: the list returned for a response.
KeyedAdapterResult(provider, response, query, skills) ==
    IF response.kind = "ok"
    THEN NormalizeLoop(provider, response.records, query, skills, <<>>)
    ELSE <<>>

\* _search_github_profiles: the loop over skills[:2]; `responses` holds the
\* answer to each request in turn.  The try block encloses the loop, so a
\* fault ends it.  Returns the candidates and the number of requests issued.
RECURSIVE GitHubLoop(_, _, _, _)
GitHubLoop(skills, responses, candidates, issued) ==
    IF skills = <<>> THEN [candidates |-> candidates, issued |-> issued]
    ELSE LET response == Head(responses) IN
         IF response.kind = "fault"
         THEN [candidates |-> candidates, issued |-> issued + 1]
         ELSE IF response.kind = "ok"
         THEN IF \E i \in 1..Len(response.records) : IsNullEntry(response.records[i])
              THEN LET k == CHOOSE i \in 1..Len(response.records) :
                                /\ IsNullEntry(response.records[i])
                                /\ \A j \in 1..(i - 1) : ~IsNullEntry(response.records[j])
                   IN  [candidates |-> candidates \o
                            [j \in 1..(k - 1) |->
                                GitHubCandidate(response.records[j], Head(skills))],
                        issued |-> issued + 1]
              ELSE GitHubLoop(Tail(skills), Tail(responses),
                              candidates \o
                                  [j \in 1..Len(response.records) |->
                                      GitHubCandidate(response.records[j], Head(skills))],
                              issued + 1)
         ELSE GitHubLoop(Tail(skills), Tail(responses), candidates, issued + 1)

\* ------------------------------------------------- what providers answer
GitHubUsers == {[html_url |-> <<"g">>, login |-> <<"g">>]}

\* the same person as each keyed provider's API shapes the record
PersonEmails == {None, <<>>, <<"a">>}
PersonNames == {<<>>, <<"n">>}
PersonTitles == {<<>>, SeniorElectrician}

RawRecords(provider) ==
    CASE provider = "GitHub" -> GitHubUsers
      [] provider = "PeopleDataLabs" ->
            {[full_name |-> n, email |-> e, job_title |-> t] :
                n \in PersonNames, e \in PersonEmails, t \in PersonTitles}
      [] provider = "SeekOut" ->
            {[firstName |-> n, lastName |-> <<>>, email |-> e, currentTitle |-> t] :
                n \in PersonNames, e \in PersonEmails, t \in PersonTitles}
      [] provider = "SourceHub" ->
            {[full_name |-> n, email |-> e, job_title |-> t] :
                n \in PersonNames, e \in PersonEmails, t \in PersonTitles}

\* What one HTTP request can end in: an exception (connection error, timeout,
\* unparsable body), a status other than 200, or a 200 with at most `room`
\* entries, each a record or a JSON null.
Responses(provider, room) ==
    {[kind |-> "fault"], [kind |-> "status"]}
        \cup {[kind |-> "ok", records |-> rs] :
                 rs \in SeqUpTo(RawRecords(provider) \cup {NullEntry}, room)}

ResponseLen(response) == IF response.kind = "ok" THEN Len(response.records) ELSE 0

RECURSIVE ResponsesLen(_)
ResponsesLen(responses) ==
    IF responses = <<>> THEN 0
    ELSE ResponseLen(Head(responses)) + ResponsesLen(Tail(responses))

\* --------------------------------------------- search_external_candidates
QueryStrings == {<<>>, Electrician}
Locations == {None, <<"t">>}
SkillLists == {<<>>, <<Licensed, Osha>>}

Init ==
    /\ config \in [GITHUB_TOKEN : BOOLEAN, PEOPLEDATA_KEY : BOOLEAN,
                   SEEKOUT_API_KEY : BOOLEAN, SOURCEHUB_API_KEY : BOOLEAN]
    /\ pc = "ready"
    /\ req = NoRequest
    /\ search_query = <<>>
    /\ all_candidates = <<>>
    /\ sources_searched = <<>>
    /\ requests = NoRequests
    /\ outcome = NoOutcomes
    /\ result = NoResult
    /\ DedupIdle
    /\ ScoreIdle
    /\ OtherIdle

\* search_public_profiles up to the provider loop: the query is built from
\* the job title, the location and the first three skills.
BuildQuery(job_title, location, skills) ==
    Join(<<job_title>>
         \o (IF Truthy(location) THEN <<location>> ELSE <<>>)
         \o (IF Truthy(skills) THEN Take(skills, 3) ELSE <<>>))

\* search_external_candidates is entered; nothing validates the arguments.
Call ==
    /\ pc = "ready"
    /\ \E query \in QueryStrings, location \in Locations,
          skills \in SkillLists, limit \in 1..MaxLimit :
          /\ req' = [query |-> query, location |-> location,
                     skills |-> skills, limit |-> limit]
          /\ search_query' = BuildQuery(query, location, skills)
    /\ pc' = "GitHub"
    /\ UNCHANGED <<config, all_candidates, sources_searched, requests, outcome,
                   result, dedupVars, scoreVars, otherVars>>

CollectedAlways(provider, candidates) ==
    [all |-> all_candidates \o candidates,
     sources |-> Append(sources_searched, provider)]

\* The body of the provider loop after search_method returned `candidates`.
Collected(provider, candidates) ==
    IF candidates # <<>>
    THEN [all |-> all_candidates \o candidates,
          sources |-> Append(sources_searched, provider)]
    ELSE [all |-> all_candidates, sources |-> sources_searched]

LimitedNever(candidates, limit) == candidates

\* candidates[:limit] if len(candidates) > limit else candidates
Limited(candidates, limit) ==
    IF Len(candidates) > limit THEN Take(candidates, limit) ELSE candidates

\* candidate['sources_searched'] = sources_searched
Annotate(candidates, sources) ==
    [i \in 1..Len(candidates) |-> candidates[i] @@ [sources_searched |-> sources]]

\* search_public_profiles after the provider loop and the rest of
\* search_external_candidates: deduplicate, annotate, limit, return.  An
\* exception of the deduplicator is caught by neither function.
Returned(all, sources, limit) ==
    LET deduped == deduplicate_candidates(all) IN
    IF deduped.raised
    THEN [raised |-> TRUE, error |-> "AttributeError", candidates |-> <<>>,
          total_found |-> 0, sources_searched |-> <<>>]
    ELSE LET limited_candidates == Limited(Annotate(deduped.out, sources), limit)
         IN  [raised |-> FALSE, error |-> "",
              candidates |-> limited_candidates,
              total_found |-> Len(limited_candidates),
              sources_searched |-> <<"GitHub", "Public Profiles">>]

Room == MaxCandidates - Len(all_candidates)

\* "failed" for a hard failure (an exception, a status other than 200, an
\* entry that could not be read), "ok" for a 200 whose entries were all read
OutcomeOf(response) ==
    IF response.kind = "ok"
          /\ \A i \in 1..Len(response.records) : ~IsNullEntry(response.records[i])
    THEN "ok" ELSE "failed"

\* _search_github_profiles: without skills no request is made; the token only
\* adds a header.
SearchGitHub ==
    /\ pc = "GitHub"
    /\ LET skills == IF Truthy(req.skills) THEN Take(req.skills, 2) ELSE <<>> IN
       \E responses \in [1..Len(skills) -> Responses("GitHub", Room)] :
          /\ ResponsesLen(responses) <= Room
          /\ LET got == GitHubLoop(skills, responses, <<>>, 0)
                 c == Collected("GitHub", got.candidates)
             IN  /\ all_candidates' = c.all
                 /\ sources_searched' = c.sources
                 /\ requests' = [requests EXCEPT !["GitHub"] = got.issued]
                 /\ outcome' = [outcome EXCEPT !["GitHub"] =
                        IF got.issued = 0 THEN "skipped"
                        ELSE IF \A k \in 1..got.issued :
                                    OutcomeOf(responses[k]) = "ok"
                        THEN "ok" ELSE "failed"]
    /\ pc' = "PeopleDataLabs"
    /\ UNCHANGED <<config, req, search_query, result, dedupVars, scoreVars, otherVars>>

KeyOf(provider) ==
    CASE provider = "PeopleDataLabs" -> config.PEOPLEDATA_KEY
      [] provider = "SeekOut" -> config.SEEKOUT_API_KEY
      [] provider = "SourceHub" -> config.SOURCEHUB_API_KEY

\* One keyed adapter called from the provider loop: without its key it
\* returns [] at once; with it, one request is issued.
\* Yields [all, sources, issued, outcome].
KeyedSearch(provider, response) ==
    IF ~KeyOf(provider)
    THEN [c |-> Collected(provider, <<>>), issued |-> 0, outcome |-> "skipped"]
    ELSE [c |-> Collected(provider,
                    KeyedAdapterResult(provider, response, search_query, req.skills)),
          issued |-> 1, outcome |-> OutcomeOf(response)]

KeyedResponses(provider) ==
    IF KeyOf(provider) THEN Responses(provider, Room) ELSE {[kind |-> "fault"]}

SearchPeopleData ==
    /\ pc = "PeopleDataLabs"
    /\ \E response \in KeyedResponses("PeopleDataLabs") :
          LET s == KeyedSearch("PeopleDataLabs", response) IN
          /\ all_candidates' = s.c.all
          /\ sources_searched' = s.c.sources
          /\ requests' = [requests EXCEPT !["PeopleDataLabs"] = s.issued]
          /\ outcome' = [outcome EXCEPT !["PeopleDataLabs"] = s.outcome]
    /\ pc' = "SeekOut"
    /\ UNCHANGED <<config, req, search_query, result, dedupVars, scoreVars, otherVars>>

SearchSeekOut ==
    /\ pc = "SeekOut"
    /\ \E response \in KeyedResponses("SeekOut") :
          LET s == KeyedSearch("SeekOut", response) IN
          /\ all_candidates' = s.c.all
          /\ sources_searched' = s.c.sources
          /\ requests' = [requests EXCEPT !["SeekOut"] = s.issued]
          /\ outcome' = [outcome EXCEPT !["SeekOut"] = s.outcome]
    /\ pc' = "SourceHub"
    /\ UNCHANGED <<config, req, search_query, result, dedupVars, scoreVars, otherVars>>

\* The last provider of the loop, then the rest of the call up to its return.
SearchSourceHub ==
    /\ pc = "SourceHub"
    /\ \E response \in KeyedResponses("SourceHub") :
          LET s == KeyedSearch("SourceHub", response) IN
          /\ all_candidates' = s.c.all
          /\ sources_searched' = s.c.sources
          /\ requests' = [requests EXCEPT !["SourceHub"] = s.issued]
          /\ outcome' = [outcome EXCEPT !["SourceHub"] = s.outcome]
          /\ result' = Returned(s.c.all, s.c.sources, req.limit)
    /\ pc' = "done"
    /\ UNCHANGED <<config, req, search_query, dedupVars, scoreVars, otherVars>>

Next == Call \/ SearchGitHub \/ SearchPeopleData \/ SearchSeekOut \/ SearchSourceHub

Spec == Init /\ [][Next]_vars


\* ------------------------------------------- the deduplicator on its own
\* Candidate dicts as the deduplicator reads them: 'email' and 'name' each
\* missing, None or a string; profile_url tells two records apart.
DedupEmailParts ==
    {EmptyDict, [email |-> <<"a">>], [email |-> <<"A", " ">>], [email |-> None]}

DedupNameParts ==
    {EmptyDict, [name |-> <<"n">>], [name |-> <<" ", "N">>], [name |-> None]}

DedupCandidates ==
    {[profile_url |-> u] @@ e @@ n :
        u \in {<<"u">>, <<"v">>}, e \in DedupEmailParts, n \in DedupNameParts}

InitDedup ==
    /\ \E k \in 0..MaxDedupLen : dIn \in [1..k -> DedupCandidates]
    /\ dOut = NoOutcome
    /\ dOut2 = NoOutcome
    /\ dpc = "input"
    /\ ScoreIdle
    /\ AggIdle
    /\ OtherIdle

DedupFirst ==
    /\ dpc = "input"
    /\ dOut' = deduplicate_candidates(dIn)
    /\ dpc' = "once"
    /\ UNCHANGED <<dIn, dOut2, scoreVars, aggVars, otherVars>>

\* the deduplicator run on the list it returned
DedupSecond ==
    /\ dpc = "once"
    /\ ~dOut.raised
    /\ dOut2' = deduplicate_candidates(dOut.out)
    /\ dpc' = "twice"
    /\ UNCHANGED <<dIn, dOut, scoreVars, aggVars, otherVars>>

NextDedup == DedupFirst \/ DedupSecond

SpecDedup == InitDedup /\ [][NextDedup]_vars

\* -------------------------------------------------- the scorer on its own

ScoreTitleParts ==
    {EmptyDict, [title |-> None], [title |-> SeniorElectrician],
     [title |-> <<>>, job_title |-> <<"E">>], [job_title |-> <<"x">>]}

ScoreSkillParts ==
    {EmptyDict, [skills |-> <<>>], [skills |-> <<Licensed>>],
     [skills |-> <<<<"L">>, <<"O">>>>]}

ScoreYearParts ==
    {EmptyDict, [yearsOfExperience |-> 3], [yearsOfExperience |-> 5],
     [yearsOfExperience |-> 0, experience_years |-> 5]}

ScoreCandidates ==
    {t @@ k @@ y : t \in ScoreTitleParts, k \in ScoreSkillParts, y \in ScoreYearParts}

ScoreQueries == {<<>>, Electrician, <<"E">>, <<"e", " ", "t">>}

InitScore ==
    /\ sIn \in [candidate_data : ScoreCandidates,
                query : ScoreQueries,
                required_skills : SeqUpTo({Licensed, Osha}, MaxReqSkills)]
    /\ sOut = 0
    /\ spc = "input"
    /\ DedupIdle
    /\ AggIdle
    /\ OtherIdle

Score ==
    /\ spc = "input"
    /\ sOut' = estimate_fit_score(sIn.candidate_data, sIn.query, sIn.required_skills)
    /\ spc' = "scored"
    /\ UNCHANGED <<sIn, dedupVars, aggVars, otherVars>>

NextScore == Score

SpecScore == InitScore /\ [][NextScore]_vars

\* ------------------------------------ x_sourcing.py: search_x_candidates
MaxPosts == 3       \* most posts all X searches of one call return together

\* _build_x_search_queries: which query patterns are built, in order
BuildXQueries(job_title, skills, location) ==
    <<"seeking", "OpenToWork">>
        \o (IF Truthy(skills) THEN <<"skill">> ELSE <<>>)
        \o (IF Truthy(location) THEN <<"location">> ELSE <<>>)
        \o <<"need a job", "DM me">>

\* _extract_candidate_from_post for a post whose text holds one of the
\* relevant keywords; the score starts at 5.0
ExtractCandidate(post) ==
    [source |-> "X",
     name |-> Get(post.user, "name", <<"U">>),
     username |-> Get(post.user, "screen_name", <<>>),
     skills |-> <<>>,
     estimated_fit |-> 10]

\* the loop over one search's posts: a post without a relevant keyword
\* yields None and is skipped
RECURSIVE ExtractLoop(_, _)
ExtractLoop(posts, candidates) ==
    IF posts = <<>> THEN candidates
    ELSE ExtractLoop(Tail(posts),
                     IF Head(posts).relevant
                     THEN Append(candidates, ExtractCandidate(Head(posts)))
                     ELSE candidates)

\* _search_x_posts: [] without the key, on an exception and on a status
\* other than 200; the response's 'results' otherwise
SearchXPosts(response) ==
    IF xcfg.rapidapi_key /\ response.kind = "ok" THEN response.results ELSE <<>>

GrokUpdateZeroOnFailure(candidate, answer) ==
    IF answer.kind # "ok"
    THEN [candidate EXCEPT !.estimated_fit = 0]
    ELSE [estimated_fit |-> Get(answer.analysis, "fit_score", 10),
          skills |-> Get(answer.analysis, "skills", <<>>),
          seniority_level |-> Get(answer.analysis, "seniority", "unknown"),
          ai_strengths |-> Get(answer.analysis, "strengths", <<>>),
          ai_concerns |-> Get(answer.analysis, "concerns", <<>>)] @@ candidate

\* _analyze_with_grok, one candidate: an exception of the API call or of
\* json.loads is caught and the candidate left as it is; otherwise five keys
\* are written
GrokUpdate(candidate, answer) ==
    IF answer.kind # "ok"
    THEN candidate
    ELSE [estimated_fit |-> Get(answer.analysis, "fit_score", 10),
          skills |-> Get(answer.analysis, "skills", <<>>),
          seniority_level |-> Get(answer.analysis, "seniority", "unknown"),
          ai_strengths |-> Get(answer.analysis, "strengths", <<>>),
          ai_concerns |-> Get(answer.analysis, "concerns", <<>>)] @@ candidate

\* _analyze_with_grok: the loop over the candidates
AnalyzeWithGrok(candidates, answers) ==
    [i \in 1..Len(candidates) |-> GrokUpdate(candidates[i], answers[i])]

\* a JSON null where a score is expected (the scores themselves are not
\* negative here)
NullScore == 0 - 1

\* x.get('estimated_fit', 0)
FitKey(candidate) == Get(candidate, "estimated_fit", 0)

SortByFitNot(unique) == unique

\* list.sort(key=..., reverse=True): stable, largest key first
RECURSIVE SortByFit(_)
SortByFit(unique) ==
    IF unique = <<>> THEN <<>>
    ELSE LET rest == SortByFit(SubSeq(unique, 1, Len(unique) - 1))
             last == unique[Len(unique)]
             ahead == {i \in 1..Len(rest) : FitKey(rest[i]) >= FitKey(last)}
             k == IF ahead = {} THEN 0
                  ELSE CHOOSE i \in ahead : \A j \in ahead : j <= i
         IN  SubSeq(rest, 1, k) \o <<last>> \o SubSeq(rest, k + 1, Len(rest))

\* the loop of _deduplicate_x_candidates: the first candidate of each
\* non-empty identifier is kept
RECURSIVE UniqueByUsername(_, _, _)
UniqueByUsername(candidates, seen, unique) ==
    IF candidates = <<>> THEN unique
    ELSE LET identifier ==
                 Get(Head(candidates), "username", Get(Head(candidates), "name", <<>>))
         IN  IF Truthy(identifier) /\ identifier \notin seen
             THEN UniqueByUsername(Tail(candidates), seen \cup {identifier},
                                   Append(unique, Head(candidates)))
             ELSE UniqueByUsername(Tail(candidates), seen, unique)

\* _deduplicate_x_candidates.  Ordering a null key against any other key
\* raises TypeError, which search_x_candidates does not catch.
deduplicate_x_candidates(candidates) ==
    LET unique == UniqueByUsername(candidates, {}, <<>>) IN
    IF Len(unique) >= 2 /\ \E i \in 1..Len(unique) : FitKey(unique[i]) = NullScore
    THEN [raised |-> TRUE, out |-> <<>>]
    ELSE [raised |-> FALSE, out |-> SortByFit(unique)]

\* what the X search API answers: users with or without a screen name, posts
\* with or without a relevant keyword in their text
XUsers ==
    {[screen_name |-> <<>>, name |-> <<"n">>],
     [screen_name |-> <<"u">>, name |-> <<"n">>],
     [screen_name |-> <<"w">>]}

XPosts == [user : XUsers, relevant : BOOLEAN]

XResponses(room) ==
    {[kind |-> "fault"]} \cup {[kind |-> "ok", results |-> ps] : ps \in SeqUpTo(XPosts, room)}

\* what Grok answers for one candidate: an API error, a body json.loads
\* rejects, or an object, whose fit_score can be missing, a number or null
GrokAnswers ==
    <<[kind |-> "error"],
      [kind |-> "unparsable"],
      [kind |-> "ok", analysis |-> EmptyDict],
      [kind |-> "ok", analysis |-> [fit_score |-> 2]],
      [kind |-> "ok", analysis |-> [fit_score |-> 18, skills |-> <<Licensed>>]],
      [kind |-> "ok", analysis |-> [fit_score |-> NullScore]]>>

InitX ==
    /\ xcfg \in [rapidapi_key : BOOLEAN, grok_client : BOOLEAN]
    /\ xpc = "ready"
    /\ xreq = NoXRequest
    /\ search_queries = <<>>
    /\ x_candidates = <<>>
    /\ x_extracted = <<>>
    /\ grok_answers = <<>>
    /\ xresult = NoXResult
    /\ RankIdle
    /\ AggIdle
    /\ DedupIdle
    /\ ScoreIdle
    /\ RestIdle

\* search_x_candidates is entered: the queries are built, three are used
XCall ==
    /\ xpc = "ready"
    /\ \E skills \in {<<>>, <<Licensed>>}, limit \in 1..MaxLimit :
          /\ xreq' = [query |-> Electrician, skills |-> skills,
                      location |-> None, limit |-> limit]
          /\ search_queries' = Take(BuildXQueries(Electrician, skills, None), 3)
    /\ xpc' = "search"
    /\ UNCHANGED <<xcfg, x_candidates, x_extracted, grok_answers, xresult,
                   rankVars, aggVars, dedupVars, scoreVars, restVars>>

\* one pass of the loop over the queries: search, extract, append
XSearch ==
    /\ xpc = "search"
    /\ \E response \in XResponses(MaxPosts - Len(x_candidates)) :
          x_candidates' = ExtractLoop(SearchXPosts(response), x_candidates)
    /\ search_queries' = Tail(search_queries)
    /\ xpc' = IF Len(search_queries) = 1 THEN "analyze" ELSE "search"
    /\ UNCHANGED <<xcfg, xreq, x_extracted, grok_answers, xresult,
                   rankVars, aggVars, dedupVars, scoreVars, restVars>>

\* if self.grok_client and candidates: _analyze_with_grok
XAnalyze ==
    /\ xpc = "analyze"
    /\ IF xcfg.grok_client /\ x_candidates # <<>>
       THEN \E pick \in [1..Len(x_candidates) -> 1..Len(GrokAnswers)] :
               LET answers == [i \in 1..Len(x_candidates) |-> GrokAnswers[pick[i]]]
               IN  /\ x_candidates' = AnalyzeWithGrok(x_candidates, answers)
                   /\ x_extracted' = x_candidates
                   /\ grok_answers' = answers
       ELSE UNCHANGED <<x_candidates, x_extracted, grok_answers>>
    /\ xpc' = "dedup"
    /\ UNCHANGED <<xcfg, xreq, search_queries, xresult, rankVars, aggVars, dedupVars, scoreVars, restVars>>

\* unique_candidates = self._deduplicate_x_candidates(candidates);
\* return unique_candidates[:limit]
XReturn ==
    /\ xpc = "dedup"
    /\ LET unique_candidates == deduplicate_x_candidates(x_candidates) IN
       xresult' = [raised |-> unique_candidates.raised,
                   candidates |-> Take(unique_candidates.out, xreq.limit)]
    /\ xpc' = "done"
    /\ UNCHANGED <<xcfg, xreq, search_queries, x_candidates, x_extracted,
                   grok_answers, rankVars, aggVars, dedupVars, scoreVars, restVars>>

NextX == XCall \/ XSearch \/ XAnalyze \/ XReturn

\* ------------------------- enhanced_sourcing.py: _rank_candidates_with_ai
MaxFound == 2       \* most candidates the searches of intelligent_search find

\* _rank_candidates_with_ai once the list is known not to be empty: the
\* input on an exception of the API call or of json.loads; otherwise what
\* the parsed body holds under 'candidates', else under 'results', else [],
\* or the body itself when it is no object
RankWithAI(candidates, answer) ==
    IF answer.kind \in {"error", "unparsable"} THEN candidates
    ELSE IF answer.kind = "object"
    THEN Get(answer.body, "candidates", Get(answer.body, "results", <<>>))
    ELSE answer.body

\* what the searches of intelligent_search find
FoundCandidates ==
    {[source |-> "LinkedIn", name |-> <<"n">>],
     [source |-> "Indeed Resumes", name |-> <<"m">>]}

\* the entries of an AI's ranked list: candidates it was given, with a
\* fit_score added, and one it was not given
RankedEntries ==
    {c @@ [fit_score |-> 90] : c \in FoundCandidates}
        \cup {[source |-> "LinkedIn", name |-> <<"x">>, fit_score |-> 90]}

\* what the AI answers to the ranking prompt: an API error, a body json.loads
\* rejects, a JSON object or a JSON array
RankAnswers ==
    {[kind |-> "error"], [kind |-> "unparsable"]}
        \cup {[kind |-> "object", body |-> [candidates |-> l]] :
                 l \in SeqUpTo(RankedEntries, MaxFound)}
        \cup {[kind |-> "object", body |-> [results |-> l]] :
                 l \in SeqUpTo(RankedEntries, MaxFound)}
        \cup {[kind |-> "object", body |-> [ranking |-> l]] :
                 l \in SeqUpTo(RankedEntries, MaxFound)}
        \cup {[kind |-> "array", body |-> l] : l \in SeqUpTo(RankedEntries, MaxFound)}

InitRank ==
    /\ rpc = "found"
    /\ ai_client \in BOOLEAN
    /\ \E k \in 0..MaxFound : found \in [1..k -> FoundCandidates]
    /\ rank_answer = NoAnswer
    /\ ranked = <<>>
    /\ iresult = NoIResult
    /\ XIdle
    /\ AggIdle
    /\ DedupIdle
    /\ ScoreIdle
    /\ RestIdle

\* intelligent_search from the ranking on: rank when there are candidates and
\* a client, return the first 20 and the length of the list
Rank ==
    /\ rpc = "found"
    /\ IF found # <<>> /\ ai_client
       THEN \E answer \in RankAnswers :
               /\ rank_answer' = answer
               /\ ranked' = RankWithAI(found, answer)
               /\ iresult' = [candidates |-> Take(RankWithAI(found, answer), 20),
                              total_found |-> Len(RankWithAI(found, answer))]
       ELSE /\ iresult' = [candidates |-> Take(found, 20), total_found |-> Len(found)]
            /\ UNCHANGED <<rank_answer, ranked>>
    /\ rpc' = "done"
    /\ UNCHANGED <<ai_client, found, xVars, aggVars, dedupVars, scoreVars, restVars>>

\* either an X search or an intelligent search is run
InitAI == InitX \/ InitRank

NextAI == NextX \/ Rank

SpecAI == InitAI /\ [][NextAI]_vars

\* ------------------- two search_public_profiles calls, interleaved
\* The service object holds a logger and nothing else; all_candidates and
\* sources_searched are created by each invocation.  The adapters keep
\* nothing between calls, so a call sees of a provider what the adapter
\* hands back to the loop: a list of candidates, or an exception.
MaxPairRecords == 1

PairCandidates ==
    {[source |-> "PeopleDataLabs", name |-> <<"n">>, email |-> <<"a">>],
     [source |-> "SeekOut", name |-> <<"n">>, email |-> <<>>],
     [source |-> "SourceHub", name |-> <<"m">>, email |-> None]}

PairReturns(room) ==
    {[kind |-> "raised"]}
        \cup {[kind |-> "list", candidates |-> l] : l \in SeqUpTo(PairCandidates, room)}

MineShared(c) == 1

\* the accumulators a call works on: its own
Mine(c) == c

\* the body of the provider loop, on the accumulators handed in
LoopBody(all, sources, provider, returned) ==
    IF returned.kind = "list" /\ returned.candidates # <<>>
    THEN [all |-> all \o returned.candidates, sources |-> Append(sources, provider)]
    ELSE [all |-> all, sources |-> sources]

\* search_public_profiles after the loop: deduplicate, annotate, return
PublicProfiles(all, sources) ==
    LET deduped_candidates == deduplicate_candidates(all) IN
    IF deduped_candidates.raised THEN [raised |-> TRUE, candidates |-> <<>>]
    ELSE [raised |-> FALSE, candidates |-> Annotate(deduped_candidates.out, sources)]

\* a whole call on its own, the adapters handing back returned[1..4]
RECURSIVE AloneLoop(_, _, _, _)
AloneLoop(all, sources, returned, i) ==
    IF i > Len(returned) THEN [all |-> all, sources |-> sources]
    ELSE LET after == LoopBody(all, sources, Providers[i], returned[i])
         IN  AloneLoop(after.all, after.sources, returned, i + 1)

Alone(returned) ==
    LET loop == AloneLoop(<<>>, <<>>, returned, 1)
    IN  PublicProfiles(loop.all, loop.sources)

Running(c) == ppc[c] \in ProviderNames

\* what the adapter handed back; with the first call's first, whether the
\* other call was under way
Noted(c, returned) ==
    IF c = 1 /\ p_returned[c] = <<>>
    THEN returned @@ [meanwhile |-> \E o \in Calls \ {c} : Running(o)]
    ELSE returned

InitPair ==
    /\ ppc = [c \in Calls |-> "ready"]
    /\ p_all = [c \in Calls |-> <<>>]
    /\ p_sources = [c \in Calls |-> <<>>]
    /\ p_returned = [c \in Calls |-> <<>>]
    /\ presult = [c \in Calls |-> NoPairResult]
    /\ ImportIdle
    /\ XIdle
    /\ RankIdle
    /\ AggIdle
    /\ DedupIdle
    /\ ScoreIdle

\* a call is entered: all_candidates = [], sources_searched = []
PairCall(c) ==
    /\ ppc[c] = "ready"
    /\ ppc' = [ppc EXCEPT ![c] = "GitHub"]
    /\ p_all' = [p_all EXCEPT ![Mine(c)] = <<>>]
    /\ p_sources' = [p_sources EXCEPT ![Mine(c)] = <<>>]
    /\ UNCHANGED <<p_returned, presult, importVars, xVars, rankVars, aggVars,
                   dedupVars, scoreVars>>

NextProvider(provider) ==
    CASE provider = "GitHub" -> "PeopleDataLabs"
      [] provider = "PeopleDataLabs" -> "SeekOut"
      [] provider = "SeekOut" -> "SourceHub"

\* one pass of a call's provider loop
PairStep(c) ==
    /\ ppc[c] \in {"GitHub", "PeopleDataLabs", "SeekOut"}
    /\ \E returned \in PairReturns(MaxPairRecords - Len(p_all[Mine(c)])) :
          LET after == LoopBody(p_all[Mine(c)], p_sources[Mine(c)], ppc[c], returned)
          IN  /\ p_all' = [p_all EXCEPT ![Mine(c)] = after.all]
              /\ p_sources' = [p_sources EXCEPT ![Mine(c)] = after.sources]
              /\ p_returned' = [p_returned EXCEPT ![c] = Append(@, Noted(c, returned))]
    /\ ppc' = [ppc EXCEPT ![c] = NextProvider(@)]
    /\ UNCHANGED <<presult, importVars, xVars, rankVars, aggVars, dedupVars, scoreVars>>

\* the last pass of the loop and the rest of the call up to its return
PairLast(c) ==
    /\ ppc[c] = "SourceHub"
    /\ \E returned \in PairReturns(MaxPairRecords - Len(p_all[Mine(c)])) :
          LET after == LoopBody(p_all[Mine(c)], p_sources[Mine(c)], ppc[c], returned)
          IN  /\ p_all' = [p_all EXCEPT ![Mine(c)] = after.all]
              /\ p_sources' = [p_sources EXCEPT ![Mine(c)] = after.sources]
              /\ p_returned' = [p_returned EXCEPT ![c] = Append(@, Noted(c, returned))]
              /\ presult' = [presult EXCEPT ![c] = PublicProfiles(after.all, after.sources)]
    /\ ppc' = [ppc EXCEPT ![c] = "done"]
    /\ UNCHANGED <<importVars, xVars, rankVars, aggVars, dedupVars, scoreVars>>

NextPair == \E c \in Calls : PairCall(c) \/ PairStep(c) \/ PairLast(c)

SpecPair == InitPair /\ [][NextPair]_vars

\* ------------- import_candidate_profile and bulk_import_candidates
MaxProfiles == 2

\* "@sourced.example.com"
SourcedDomain ==
    <<"@", "s", "o", "u", "r", "c", "e", "d", ".", "e", "x", "a", "m", "p", "l",
      "e", ".", "c", "o", "m">>

\* ResumeAnalysis.query.filter_by(email=email): the rows with that email
FilterByEmail(rows, email) == SelectSeq(rows, LAMBDA row : row.email = email)

UniqueViolationNever(rows, email) == FALSE

\* email is unique: inserting a second row with a stored email is rejected
UniqueViolation(rows, email) == \E i \in 1..Len(rows) : rows[i].email = email

\* UniqueConstraint('candidate_id', 'skill_name') on the skill rows of one
\* new candidate
SkillViolation(skills) ==
    \E i, j \in 1..Len(skills) : i # j /\ skills[i] = skills[j]

\* The statements that a lost connection makes raise: the lookup, the
\* commit, the rollback of the except clause, and the SELECT that reloads
\* the committed object when the caller reads candidate.id.
Faults ==
    {{}, {"query"}, {"commit"}, {"rollback"}, {"query", "rollback"},
     {"commit", "rollback"}, {"refresh"}}

\* the except clause: rollback, log, return None; a failing rollback leaves
\* the function as an exception
ImportFailed(rows, skill_rows, faults) ==
    [kind |-> IF "rollback" \in faults THEN "raised" ELSE "none",
     rows |-> rows, skill_rows |-> skill_rows]

\* import_candidate_profile on the tables `rows` and `skill_rows`.
\* kind: "existing" and "created" return `candidate`, "none" returns None,
\* "raised" leaves by an exception.
ImportProfile(profile_data, rows, skill_rows, faults) ==
    LET first_name == Get(profile_data, "first_name", <<>>)
        last_name == Get(profile_data, "last_name", <<>>)
        email == Get(profile_data, "email", <<>>)
        skills == Get(profile_data, "skills", <<>>)
    IN  IF Truthy(email) /\ "query" \in faults
        THEN ImportFailed(rows, skill_rows, faults)
        ELSE IF Truthy(email) /\ FilterByEmail(rows, email) # <<>>
        THEN [kind |-> "existing", candidate |-> Head(FilterByEmail(rows, email)),
              rows |-> rows, skill_rows |-> skill_rows]
        ELSE IF ~Truthy(email) /\ (IsNone(first_name) \/ IsNone(last_name))
        THEN ImportFailed(rows, skill_rows, faults)
        ELSE LET candidate ==
                     [id |-> Len(rows) + 1,
                      first_name |-> first_name,
                      last_name |-> last_name,
                      email |-> IF Truthy(email) THEN email
                                ELSE Lower(first_name) \o <<".">> \o Lower(last_name)
                                         \o SourcedDomain]
             IN  IF \/ UniqueViolation(rows, candidate.email)
                    \/ SkillViolation(skills)
                    \/ "commit" \in faults
                 THEN ImportFailed(rows, skill_rows, faults)
                 ELSE [kind |-> "created", candidate |-> candidate,
                       rows |-> Append(rows, candidate),
                       skill_rows |-> skill_rows \o
                           [i \in 1..Len(skills) |->
                               [candidate_id |-> candidate.id,
                                skill_name |-> skills[i]]]]

\* the entry bulk_import_candidates appends for an imported candidate
Entry(candidate) ==
    [id |-> candidate.id,
     name |-> FStr(candidate.first_name) \o <<" ">> \o FStr(candidate.last_name),
     email |-> candidate.email]

\* One pass of the loop of bulk_import_candidates over an import that ended
\* as `import`: reading candidate.id of an object committed in this call
\* reloads it.
Counted(summary, import, faults) ==
    IF import.kind = "raised"
    THEN [summary EXCEPT !.errors = @ + 1]
    ELSE IF import.kind = "none"
    THEN [summary EXCEPT !.skipped = @ + 1]
    ELSE IF import.kind = "created" /\ "refresh" \in faults
    THEN [summary EXCEPT !.imported = @ + 1, !.errors = @ + 1]
    ELSE [summary EXCEPT !.imported = @ + 1,
                         !.candidates = Append(@, Entry(import.candidate))]

ImportNames == {<<"j">>, <<"J">>, None}
ImportEmails == {<<>>, <<"a">>}
ImportSkills == {<<>>, <<Licensed>>, <<Licensed, Licensed>>}

ImportProfiles ==
    {[first_name |-> n, email |-> e, skills |-> k] :
        n \in ImportNames, e \in ImportEmails, k \in ImportSkills}

StoredRows ==
    {<<>>, <<[id |-> 1, first_name |-> <<"k">>, last_name |-> <<>>, email |-> <<"a">>]>>}

InitImport ==
    /\ db_rows \in StoredRows
    /\ db_skills = <<>>
    /\ bpc = "ready"
    /\ candidates_data \in SeqUpTo(ImportProfiles, MaxProfiles)
    /\ todo = <<>>
    /\ results = NoResults
    /\ last_import = NoImport
    /\ PairIdle
    /\ XIdle
    /\ RankIdle
    /\ AggIdle
    /\ DedupIdle
    /\ ScoreIdle

\* bulk_import_candidates is entered: the summary is set up
BulkCall ==
    /\ bpc = "ready"
    /\ results' = [NoResults EXCEPT !.total = Len(candidates_data)]
    /\ todo' = candidates_data
    /\ bpc' = IF candidates_data = <<>> THEN "done" ELSE "loop"
    /\ UNCHANGED <<db_rows, db_skills, candidates_data, last_import, pairVars,
                   xVars, rankVars, aggVars, dedupVars, scoreVars>>

\* one pass of the loop: the profile is imported and counted; after the last
\* one the summary is returned
BulkStep ==
    /\ bpc = "loop"
    /\ \E faults \in Faults :
          LET profile_data == Head(todo)
              import == ImportProfile(profile_data, db_rows, db_skills, faults)
          IN  /\ db_rows' = import.rows
              /\ db_skills' = import.skill_rows
              /\ results' = Counted(results, import, faults)
              /\ last_import' =
                    [kind |-> import.kind,
                     email |-> Get(profile_data, "email", <<>>),
                     lookup_failed |-> "query" \in faults,
                     found |-> FilterByEmail(db_rows, Get(profile_data, "email", <<>>)),
                     rows_added |-> Len(import.rows) - Len(db_rows),
                     skills_added |-> Len(import.skill_rows) - Len(db_skills)]
                    @@ (IF import.kind \in {"existing", "created"}
                        THEN [returned |-> import.candidate] ELSE EmptyDict)
    /\ todo' = Tail(todo)
    /\ bpc' = IF Len(todo) = 1 THEN "done" ELSE "loop"
    /\ UNCHANGED <<candidates_data, pairVars, xVars, rankVars, aggVars, dedupVars,
                   scoreVars>>

NextImport == BulkCall \/ BulkStep

SpecImport == InitImport /\ [][NextImport]_vars

\* ================================================================= claims

\* the elements of a list
Range(seq) == {seq[i] : i \in 1..Len(seq)}

\* C1: whatever the adapters answer and whatever the records hold (a null
\* email included), the entry point returns a result and raises nothing.
C1_NeverRaises == pc = "done" => ~result.raised

\* C4: the returned candidates are non-increasing in estimated_fit.
C4_RankedByFit ==
    (pc = "done" /\ ~result.raised) =>
        \A i, j \in 1..Len(result.candidates) :
            (/\ i < j
             /\ "estimated_fit" \in DOMAIN result.candidates[i]
             /\ "estimated_fit" \in DOMAIN result.candidates[j]) =>
                result.candidates[i].estimated_fit >= result.candidates[j].estimated_fit

\* C5: a request with an empty job title / keywords string is rejected with
\* InvalidRequest and no adapter issues a network request for it.
C5_EmptyQueryRejected ==
    (pc \notin {"idle", "ready"} /\ req.query = <<>>) =>
        /\ \A p \in ProviderNames : requests[p] = 0
        /\ pc = "done" => (result.raised /\ result.error = "InvalidRequest")

\* the providers that returned a record with this (normalized) email
ProvidersWithEmail(email) ==
    {all_candidates[i].source : i \in {k \in 1..Len(all_candidates) :
        /\ ~IsNone(Get(all_candidates[k], "email", <<>>))
        /\ Strip(Lower(Get(all_candidates[k], "email", <<>>))) = email}}

\* two providers each returned a record with email "a", under different names
C6_SameEmailFromTwoProviders ==
    \E i, j \in 1..Len(all_candidates) :
        /\ all_candidates[i].source # all_candidates[j].source
        /\ Get(all_candidates[i], "email", <<>>) = <<"a">>
        /\ Get(all_candidates[j], "email", <<>>) = <<"a">>
        /\ Get(all_candidates[i], "name", <<>>) # Get(all_candidates[j], "name", <<>>)

\* C6: when two providers each return a record with the same email, the
\* result holds exactly one candidate with that email and the sources it
\* reports hold both providers' names.
C6_BothSourcesReported ==
    (pc = "done" /\ C6_SameEmailFromTwoProviders) =>
        /\ ~result.raised
        /\ Cardinality({i \in 1..Len(result.candidates) :
                            Get(result.candidates[i], "email", <<>>) = <<"a">>}) = 1
        /\ ProvidersWithEmail(<<"a">>) \subseteq Range(result.sources_searched)

\* no credential at all is configured
C7_NoCredential ==
    /\ ~config.GITHUB_TOKEN
    /\ ~config.PEOPLEDATA_KEY
    /\ ~config.SEEKOUT_API_KEY
    /\ ~config.SOURCEHUB_API_KEY

\* C7: with no credential configured the call raises nothing and returns no
\* candidates, total_found = 0, no succeeded source (no provider recorded by
\* search_public_profiles) and a non-empty list of sources in the result.
C7_NoCredentialNoCandidates ==
    (pc = "done" /\ C7_NoCredential) =>
        /\ ~result.raised
        /\ result.candidates = <<>>
        /\ result.total_found = 0
        /\ sources_searched = <<>>
        /\ result.sources_searched # <<>>

\* C10: total_found is the number of candidates after deduplication and before
\* truncation, so it exceeds the returned list's length whenever the limit cut.
C10_TotalBeforeTruncation ==
    (pc = "done" /\ ~result.raised) =>
        LET deduped == deduplicate_candidates(all_candidates).out IN
        /\ result.total_found = Len(deduped)
        /\ Len(deduped) > req.limit => result.total_found > Len(result.candidates)

\* the candidates a provider's adapter returned to the provider loop
ReturnedBy(p) ==
    {i \in 1..Len(all_candidates) : all_candidates[i].source = p}

\* the provider's adapter has been called and has returned
HasRun(p) == outcome[p] # "none"

\* every adapter made its request and hard-failed
C11_EveryProviderFailed == \A p \in ProviderNames : outcome[p] = "failed"

\* every adapter made its request and got a clean answer of zero records
C11_EveryProviderCleanEmpty ==
    /\ \A p \in ProviderNames : outcome[p] = "ok"
    /\ all_candidates = <<>>

\* what an aggregation of clean, empty answers returns
C11_CleanEmptyResult ==
    [raised |-> FALSE, error |-> "", candidates |-> <<>>, total_found |-> 0,
     sources_searched |-> <<"GitHub", "Public Profiles">>]

\* C11: an aggregation in which every provider hard-failed returns a result
\* that differs, in the sources it reports or records, from the result of an
\* aggregation in which every provider answered cleanly with zero records.
C11_FailuresVisible ==
    pc = "done" =>
        /\ C11_EveryProviderCleanEmpty =>
              (result = C11_CleanEmptyResult /\ sources_searched = <<>>)
        /\ C11_EveryProviderFailed =>
              (result # C11_CleanEmptyResult \/ sources_searched # <<>>)

\* C12: the adapters of one aggregation are started without waiting for one
\* another: while the call is in progress, every adapter that has not yet
\* been started can be started.
C12_StartsWithoutWaiting ==
    (pc \notin {"idle", "ready", "done"}) =>
        /\ ~HasRun("GitHub") => ENABLED SearchGitHub
        /\ ~HasRun("PeopleDataLabs") => ENABLED SearchPeopleData
        /\ ~HasRun("SeekOut") => ENABLED SearchSeekOut
        /\ ~HasRun("SourceHub") => ENABLED SearchSourceHub

\* C13: an adapter one of whose network calls faulted (exception, status
\* other than 200, unreadable entry) returns an empty list, also when an
\* earlier call or an earlier record of it was processed successfully.
C13_FaultYieldsEmptyList ==
    \A p \in ProviderNames : outcome[p] = "failed" => ReturnedBy(p) = {}

\* the credential of a provider's adapter is configured
Credential(p) == IF p = "GitHub" THEN config.GITHUB_TOKEN ELSE KeyOf(p)

\* C14: an adapter whose credential is not configured issues no network
\* request and returns an empty list.
C14_NoCredentialNoRequest ==
    \A p \in ProviderNames :
        (HasRun(p) /\ ~Credential(p)) => (requests[p] = 0 /\ ReturnedBy(p) = {})

\* C15: every candidate of a returned result carries an estimated_fit, and it
\* lies in [0, 10] (in halves: [0, 20]).
C15_FitAlwaysPopulated ==
    (pc = "done" /\ ~result.raised) =>
        \A i \in 1..Len(result.candidates) :
            /\ "estimated_fit" \in DOMAIN result.candidates[i]
            /\ result.candidates[i].estimated_fit \in 0..20

\* C17: a candidate whose current title holds the request's (non-empty) job
\* title, ignoring case, has the +2.0 title bonus in its score (base 5.0, so
\* at least 7.0; in halves 14), whatever the provider, location and skills.
C17_TitleBonusApplied ==
    (pc = "done" /\ req.query # <<>>) =>
        \A i \in 1..Len(all_candidates) :
            (/\ "title" \in DOMAIN all_candidates[i]
             /\ Contains(Lower(all_candidates[i].title), Lower(req.query))) =>
                all_candidates[i].estimated_fit >= 14

\* C20: a provider that completed without a hard failure is recorded among
\* the succeeded sources, zero records or not, and a provider that hard-failed
\* (exception, status other than 200, missing credential) is not.
C20_CleanEmptyCountsAsSucceeded ==
    \A p \in ProviderNames :
        /\ outcome[p] = "ok" => p \in Range(sources_searched)
        /\ (outcome[p] = "failed" \/ (HasRun(p) /\ p # "GitHub" /\ ~KeyOf(p))) =>
              p \notin Range(sources_searched)

\* C21: every candidate of a returned result has a non-empty email,
\* profile_url or name; a record with none of the three is discarded.
C21_IdentifiableCandidates ==
    (pc = "done" /\ ~result.raised) =>
        \A i \in 1..Len(result.candidates) :
            \/ Truthy(Get(result.candidates[i], "email", <<>>))
            \/ Truthy(Get(result.candidates[i], "profile_url", <<>>))
            \/ Truthy(Get(result.candidates[i], "name", <<>>))

\* the list search_public_profiles returned, before the limit is applied
BeforeTruncation ==
    Annotate(deduplicate_candidates(all_candidates).out, sources_searched)

\* C22: the call returns at most `limit` candidates, and they are the first
\* min(limit, n) entries, in order, of the n entries it had before truncation.
C22_FirstLimitEntries ==
    (pc = "done" /\ ~result.raised) =>
        /\ Len(result.candidates) <= req.limit
        /\ result.candidates =
              SubSeq(BeforeTruncation, 1, Min(req.limit, Len(BeforeTruncation)))

\* two candidates survived deduplication and the limit of 1 cut the second
C22_Witness ==
    /\ pc = "done"
    /\ ~result.raised
    /\ req.limit = 1
    /\ Len(BeforeTruncation) = 2
    /\ result.candidates = <<BeforeTruncation[1]>>

\* the providers that returned at least one record, in the order of the loop
ProvidersWithRecords == SelectSeq(Providers, LAMBDA p : ReturnedBy(p) # {})

\* C29: every returned candidate carries the same sources_searched, which is
\* the providers that returned at least one record, in the order GitHub,
\* PeopleDataLabs, SeekOut, SourceHub, and holds the candidate's own source.
C29_SourcesAnnotation ==
    (pc = "done" /\ ~result.raised) =>
        \A i \in 1..Len(result.candidates) :
            /\ result.candidates[i].sources_searched = ProvidersWithRecords
            /\ result.candidates[i].source \in Range(result.candidates[i].sources_searched)

\* candidates of two providers are returned while a provider between them
\* made its request and returned nothing
C29_Witness ==
    /\ pc = "done"
    /\ ~result.raised
    /\ Len(result.candidates) = 2
    /\ result.candidates[1].source = "PeopleDataLabs"
    /\ result.candidates[2].source = "SourceHub"
    /\ requests["SeekOut"] = 1
    /\ result.candidates[1].sources_searched = <<"PeopleDataLabs", "SourceHub">>

\* C23: AI scoring fails soft.  When the ranking call raises or its body
\* cannot be parsed, _rank_candidates_with_ai returns its input unchanged;
\* when Grok's call for a candidate raises or its body cannot be used, the
\* candidate keeps what it had (estimated_fit 5.0, in halves 10), no
\* candidate is lost and the other candidates are still scored.
C23_AIFailsSoft ==
    /\ (rpc = "done" /\ rank_answer.kind \in {"error", "unparsable"}) =>
          (ranked = found /\ iresult.candidates = Take(found, 20))
    /\ (xpc \in {"dedup", "done"} /\ grok_answers # <<>>) =>
          /\ Len(x_candidates) = Len(x_extracted)
          /\ \A i \in 1..Len(x_candidates) :
                IF grok_answers[i].kind # "ok"
                THEN /\ x_candidates[i] = x_extracted[i]
                     /\ x_candidates[i].estimated_fit = 10
                ELSE x_candidates[i].estimated_fit =
                         Get(grok_answers[i].analysis, "fit_score", 10)

\* Grok's answer for the first of two candidates could not be parsed and the
\* second was scored 9.0
C23_Witness ==
    /\ xpc = "done"
    /\ Len(x_candidates) = 2
    /\ Len(grok_answers) = 2
    /\ grok_answers[1].kind = "unparsable"
    /\ grok_answers[2].kind = "ok"
    /\ x_candidates[1].estimated_fit = 10
    /\ x_candidates[2].estimated_fit = 18

\* a ranked entry without the fit_score the AI added
WithoutFitScore(entry) ==
    [k \in DOMAIN entry \ {"fit_score"} |-> entry[k]]

\* `out` holds exactly the candidates of `inp`, in some order
Reordering(out, inp) ==
    /\ Len(out) = Len(inp)
    /\ \E f \in Permutations(1..Len(inp)) :
          \A i \in 1..Len(inp) : WithoutFitScore(out[f[i]]) = inp[i]

\* C25: when the ranking call succeeds, the list returned holds exactly the
\* candidates given (none lost, none added), so intelligent_search returns
\* as many candidates as were found, up to 20.
C25_RankingKeepsCandidates ==
    (rpc = "done" /\ rank_answer.kind \in {"object", "array"}) =>
        /\ Reordering(ranked, found)
        /\ Len(iresult.candidates) = Min(Len(found), 20)

\* C28: search_x_candidates returns at most `limit` candidates, each with a
\* non-empty username, no username twice, non-increasing in estimated_fit.
C28_XResultOrdered ==
    (xpc = "done" /\ ~xresult.raised) =>
        /\ Len(xresult.candidates) <= xreq.limit
        /\ \A i \in 1..Len(xresult.candidates) :
              Truthy(Get(xresult.candidates[i], "username", <<>>))
        /\ \A i, j \in 1..Len(xresult.candidates) :
              i < j =>
                 /\ xresult.candidates[i].username # xresult.candidates[j].username
                 /\ xresult.candidates[i].estimated_fit >=
                        xresult.candidates[j].estimated_fit

\* three posts gave two users twice over; the later user scored higher and
\* is returned first
C28_Witness ==
    /\ xpc = "done"
    /\ ~xresult.raised
    /\ xreq.limit = 2
    /\ Len(x_candidates) = 3
    /\ x_candidates[1].username = x_candidates[2].username
    /\ x_candidates[3].username # x_candidates[1].username
    /\ x_candidates[1].estimated_fit < x_candidates[3].estimated_fit
    /\ xresult.candidates = <<x_candidates[3], x_candidates[1]>>

\* the email of a candidate as the claims compare it: lower-cased, trimmed
EmailOf(candidate) == Strip(Lower(Get(candidate, "email", <<>>)))

\* the name of a candidate as the claims compare it: lower-cased, trimmed
NameOf(candidate) == Strip(Lower(Get(candidate, "name", <<>>)))

\* the ways `out` lies in `inp` as a subsequence: for each entry of `out` the
\* position in `inp` it was taken from, positions increasing
Embeddings(out, inp) ==
    {f \in [1..Len(out) -> 1..Len(inp)] :
        /\ \A k, l \in 1..Len(out) : k < l => f[k] < f[l]
        /\ \A k \in 1..Len(out) : out[k] = inp[f[k]]}

\* the positions of the input an embedding marks as kept
KeptBy(f) == {f[k] : k \in DOMAIN f}

\* C16: a candidate without email and with a non-empty name is dropped when an
\* earlier kept candidate has the same lower-cased trimmed name, whatever the
\* profile_urls and whether or not the earlier candidate has an email.
C16_NameDuplicateDropped ==
    (dpc \in {"once", "twice"} /\ ~dOut.raised) =>
        \E f \in Embeddings(dOut.out, dIn) :
            \A i, j \in 1..Len(dIn) :
                (/\ i < j
                 /\ i \in KeptBy(f)
                 /\ EmailOf(dIn[j]) = <<>>
                 /\ NameOf(dIn[j]) # <<>>
                 /\ NameOf(dIn[i]) = NameOf(dIn[j])) => j \notin KeptBy(f)

\* a record with an email is kept, and a later record without email whose
\* name differs from it only in case and spacing, and in profile_url, is not
C16_Witness ==
    /\ dpc = "once"
    /\ ~dOut.raised
    /\ dIn = <<[profile_url |-> <<"u">>, email |-> <<"a">>, name |-> <<"n">>],
               [profile_url |-> <<"v">>, name |-> <<" ", "N">>]>>
    /\ dOut.out = <<dIn[1]>>

\* C18: of the candidates without email and without name that share one
\* non-empty profile_url, the deduplicator keeps only the first.
C18_SameProfileUrlDropped ==
    (dpc \in {"once", "twice"} /\ ~dOut.raised) =>
        \A k, l \in 1..Len(dOut.out) :
            (/\ k < l
             /\ EmailOf(dOut.out[k]) = <<>> /\ NameOf(dOut.out[k]) = <<>>
             /\ EmailOf(dOut.out[l]) = <<>> /\ NameOf(dOut.out[l]) = <<>>
             /\ Truthy(Get(dOut.out[k], "profile_url", <<>>))) =>
                Get(dOut.out[k], "profile_url", <<>>) # Get(dOut.out[l], "profile_url", <<>>)

\* C19: the output is a subsequence of the input, entries unmodified and in
\* the input's order, and of the records sharing one normalized email exactly
\* the earliest is kept.
C19_FirstSeenWins ==
    (dpc \in {"once", "twice"} /\ ~dOut.raised) =>
        \E f \in Embeddings(dOut.out, dIn) :
            \A i \in 1..Len(dIn) :
                EmailOf(dIn[i]) # <<>> =>
                    (i \in KeptBy(f) <=>
                        \A j \in 1..(i - 1) : EmailOf(dIn[j]) # EmailOf(dIn[i]))

\* of two records with the same normalized email and different fields, behind
\* a record without email, the earlier is the one returned, as it came in
C19_Witness ==
    /\ dpc = "once"
    /\ ~dOut.raised
    /\ Len(dIn) = 3
    /\ EmailOf(dIn[1]) = <<>>
    /\ dIn[2].profile_url = <<"v">> /\ Get(dIn[2], "email", <<>>) = <<"A", " ">>
    /\ dIn[3].profile_url = <<"u">> /\ Get(dIn[3], "email", <<>>) = <<"a">>
    /\ dOut.out = <<dIn[1], dIn[2]>>

\* C26: the number of candidates kept does not depend on the order of the
\* input: every reordering of the list yields an output of the same length.
C26_OrderIndependentCount ==
    (dpc \in {"once", "twice"} /\ ~dOut.raised) =>
        \A f \in Permutations(1..Len(dIn)) :
            LET reordered == deduplicate_candidates([i \in 1..Len(dIn) |-> dIn[f[i]]])
            IN  ~reordered.raised => Len(reordered.out) = Len(dOut.out)

\* C2: whenever the deduplicator returns, its output is no longer than its
\* input and no two entries share the same non-empty normalized email.
C2_DedupUniqueEmails ==
    (dpc \in {"once", "twice"} /\ ~dOut.raised) =>
        /\ Len(dOut.out) <= Len(dIn)
        /\ \A i, j \in 1..Len(dOut.out) :
              (i < j /\ EmailOf(dOut.out[i]) # <<>>) =>
                  EmailOf(dOut.out[i]) # EmailOf(dOut.out[j])

\* a duplicate that differs from the kept record in case and spacing was dropped
C2_Witness ==
    /\ dpc = "once"
    /\ ~dOut.raised
    /\ Len(dIn) = 2
    /\ Len(dOut.out) = 1
    /\ Get(dIn[1], "email", <<>>) = <<"a">>
    /\ Get(dIn[2], "email", <<>>) = <<"A", " ">>

\* C3: a second pass over the deduplicator's own output returns that output,
\* same candidates in the same order.
C3_DedupIdempotent ==
    dpc = "twice" => (~dOut2.raised /\ dOut2.out = dOut.out)

C3_Witness ==
    /\ dpc = "twice"
    /\ Len(dOut.out) = 2
    /\ Len(dIn) = 3
    /\ dOut2.out = dOut.out

\* C8: the heuristic score lies in [0, 10] (in halves: [0, 20]).
C8_ScoreBounds == spc = "scored" => (0 <= sOut /\ sOut <= 20)

\* the score reaches 10.0 with more matched skills than the skills cap pays for
C8_Witness ==
    /\ spc = "scored"
    /\ sOut = 20
    /\ Len(sIn.required_skills) = 5
    /\ Get(sIn.candidate_data, "skills", <<>>) = <<Licensed>>
    /\ \A i \in 1..5 : sIn.required_skills[i] = Licensed

\* number of requested skills present, ignoring case, among the record's skills
RECURSIVE C9_Matched(_, _)
C9_Matched(wanted, have) ==
    IF wanted = <<>> THEN 0
    ELSE (IF \E i \in 1..Len(have) : Lower(have[i]) = Lower(Head(wanted)) THEN 1 ELSE 0)
         + C9_Matched(Tail(wanted), have)

\* what the skills contributed: the score less the score without required skills
C9_SkillsComponent ==
    sOut - estimate_fit_score(sIn.candidate_data, sIn.query, <<>>)

C9_Example ==
    [candidate_data |-> [title |-> SeniorElectrician, skills |-> <<Licensed>>],
     query |-> Electrician,
     required_skills |-> <<Licensed, Osha>>]

\* C9 as stated: the skills component is matched/total * 2.0 capped at 2.0, and
\* the example scores 8.0.
C9_AsStated ==
    spc = "scored" =>
        /\ (sIn.required_skills # <<>> /\ Truthy(Get(sIn.candidate_data, "skills", None))) =>
              C9_SkillsComponent * Len(sIn.required_skills) =
                  4 * C9_Matched(sIn.required_skills, sIn.candidate_data.skills)
        /\ sIn = C9_Example => sOut = 16

\* C9 amended: the skills component is 0.5 per matched skill capped at 2.0,
\* whatever the number of requested skills, and the example scores 7.5.
C9_SkillsHalfPointEach ==
    spc = "scored" =>
        /\ C9_SkillsComponent =
              Min(C9_Matched(sIn.required_skills,
                             Or(Get(sIn.candidate_data, "skills", <<>>), <<>>)), 4)
        /\ sIn = C9_Example => sOut = 15

C9_Witness == spc = "scored" /\ sIn = C9_Example /\ sOut = 15


\* C24: a search_public_profiles call that ran interleaved with another one
\* returns (or raises) exactly what it returns when run alone on what the
\* adapters handed back to it.
C24_CallsIndependent ==
    \A c \in Calls : ppc[c] = "done" => presult[c] = Alone(p_returned[c])

\* both calls returned, each with candidates, and they differ
C24_Witness ==
    /\ ppc[1] = "done" /\ ppc[2] = "done"
    /\ presult[1].candidates # <<>>
    /\ presult[2].candidates # <<>>
    /\ presult[1] # presult[2]
    /\ p_returned[1][1].meanwhile

\* C27 (as stated): no two stored candidate rows share an email, and an
\* import of a profile whose non-empty email is stored returns the stored
\* row and adds neither a candidate row nor a skill row.
C27_ExistingEmailReturned ==
    /\ \A i, j \in 1..Len(db_rows) : i # j => db_rows[i].email # db_rows[j].email
    /\ (last_import.kind # "never" /\ Truthy(last_import.email)
            /\ last_import.found # <<>>)
          => /\ last_import.kind = "existing"
             /\ last_import.returned = Head(last_import.found)
             /\ last_import.rows_added = 0
             /\ last_import.skills_added = 0

\* C27 (amended): no two stored candidate rows share an email, and an import
\* of a profile whose non-empty email is stored adds neither a candidate row
\* nor a skill row; it returns the stored row when the lookup answered, and
\* None or an exception when the lookup raised.
C27_OneRowPerEmail ==
    /\ \A i, j \in 1..Len(db_rows) : i # j => db_rows[i].email # db_rows[j].email
    /\ (last_import.kind # "never" /\ Truthy(last_import.email)
            /\ last_import.found # <<>>)
          => /\ last_import.rows_added = 0
             /\ last_import.skills_added = 0
             /\ IF last_import.lookup_failed
                THEN last_import.kind \in {"none", "raised"}
                ELSE /\ last_import.kind = "existing"
                     /\ last_import.returned = Head(last_import.found)

\* rows and skill rows are stored, and the last import found its email stored
C27_Witness ==
    /\ Len(db_rows) >= 2
    /\ db_skills # <<>>
    /\ last_import.kind = "existing"
    /\ Truthy(last_import.email)
    /\ last_import.returned = Head(last_import.found)

\* C30: the summary bulk_import_candidates returns has imported + skipped +
\* errors = total = the number of input profiles, and as many entries in
\* 'candidates' as 'imported' says.
C30_SummaryAddsUp ==
    bpc = "done" =>
        /\ results.imported + results.skipped + results.errors = results.total
        /\ results.total = Len(candidates_data)
        /\ Len(results.candidates) = results.imported
====
